---------------------------- MODULE Spec2Model ----------------------------
(***************************************************************************)
(* Model of ts/service_worker.js: the MV3 service worker that keeps the    *)
(* declarativeNetRequest rule set in step with the health of the relay.    *)
(*                                                                         *)
(* Every `await` of the source is one step of a task: the step performs    *)
(* the effect of the awaited platform call and runs the synchronous code   *)
(* that follows it, up to the next await.  Steps of different tasks        *)
(* interleave freely, as the event loop lets them.                         *)
(***************************************************************************)
EXTENDS Integers, Sequences, FiniteSets, TLC

(***************************************************************************)
(* Bounds of the model.                                                    *)
(***************************************************************************)
MaxReconciles == 3   \* reconciles started in one behaviour
MaxTasks == 2        \* reconciles in flight at the same time
MaxTabNotices == 1   \* tab-load-complete notices counted
MaxFaults == 1       \* platform calls that reject, where calls may reject
MaxTabs == 3         \* tabs one chrome.tabs.query answers with
MaxAddressLen == 4   \* tokens of an address handed to normalizeBase
MaxChanges == 1      \* changes of health and address before they stop for good

(***************************************************************************)
(* Strings are sequences of tokens; "/" is the only token that is or ends  *)
(* with a slash, and only the scheme tokens begin with http: or https:.    *)
(***************************************************************************)
Undefined == <<"undefined">>
DEFAULT_ADDRESS == <<"http:", "/", "/", "localhost:9595">>
HEALTH_PATH == <<"/", "stat", "/">>

SchemeTokens == {"http:", "https:", "HTTP:", "HTTPS:"}

\* /^https?:/i.test(base)
HasScheme(s) == Len(s) > 0 /\ s[1] \in SchemeTokens

normalizeBase(input) ==
  LET base0 == IF input = Undefined \/ input = <<>> THEN DEFAULT_ADDRESS ELSE input
      base1 == IF HasScheme(base0) THEN base0 ELSE <<"http:", "/", "/">> \o base0
  IN  IF base1[Len(base1)] = "/" THEN SubSeq(base1, 1, Len(base1) - 1) ELSE base1

(***************************************************************************)
(* Rule identifiers and the rules the worker builds.                       *)
(***************************************************************************)
AMAZON_ADS_BLOCK == 1003
LIVE_ALLOW == 3001
VOD_ALLOW == 3002
LIVE_REDIRECT == 2001
VOD_REDIRECT == 2002
OLD_LIVE_REDIRECT == 1001
OLD_VOD_REDIRECT == 1002

DYNAMIC_RULE_IDS == {AMAZON_ADS_BLOCK}
DYNAMIC_ALLOW_IDS == {LIVE_ALLOW, VOD_ALLOW}
SESSION_RULE_IDS == {LIVE_REDIRECT, VOD_REDIRECT}
oldIds == {OLD_LIVE_REDIRECT, OLD_VOD_REDIRECT}

NoTarget == <<>>

Rule(id, priority, action, route, target) ==
  [id |-> id, priority |-> priority, action |-> action, route |-> route,
   target |-> target]

\* Variant: the target is built from the address as stored, not normalized.
buildRedirectSessionRules_Raw(baseAddress) ==
  { Rule(LIVE_REDIRECT, 1, "redirect", "live", baseAddress \o <<"/", "live", "/">>),
    Rule(VOD_REDIRECT, 1, "redirect", "vod", baseAddress \o <<"/", "vod", "/">>) }

buildRedirectSessionRules(baseAddress) ==
  LET base == normalizeBase(baseAddress)
  IN  { Rule(LIVE_REDIRECT, 1, "redirect", "live", base \o <<"/", "live", "/">>),
        Rule(VOD_REDIRECT, 1, "redirect", "vod", base \o <<"/", "vod", "/">>) }

adsBlockRule == Rule(AMAZON_ADS_BLOCK, 1, "block", "ads", NoTarget)
\* Variant: the live allow rule is given a priority below the redirect rules'.
liveAllow_LowPriority == Rule(LIVE_ALLOW, 0, "allow", "live", NoTarget)

liveAllow == Rule(LIVE_ALLOW, 100, "allow", "live", NoTarget)
vodAllow == Rule(VOD_ALLOW, 100, "allow", "vod", NoTarget)

\* Rules of an earlier version of the extension, known only by their ids.
oldRules == { Rule(OLD_LIVE_REDIRECT, 1, "redirect", "live", NoTarget),
              Rule(OLD_VOD_REDIRECT, 1, "redirect", "vod", NoTarget) }

\* declarativeNetRequest.updateDynamicRules / updateSessionRules: one atomic
\* replace; a rejected call changes nothing.
updateRules(rules, removeRuleIds, addRules, ok) ==
  IF ok THEN { r \in rules : r.id \notin removeRuleIds } \cup addRules ELSE rules

(***************************************************************************)
(* The relay, as the probe sees it.                                        *)
(***************************************************************************)
HealthValues == {"unreachable", "healthy"}

\* fetch(url): what the relay in health h answers.
Respond(h) ==
  CASE h = "unreachable" -> [transport |-> FALSE, ok |-> FALSE, body |-> "none"]
    [] h = "healthy"     -> [transport |-> TRUE, ok |-> TRUE, body |-> "text"]

\* Variant: the body of a successful answer is not looked at.
Classify_BodyIgnored(res) == res.transport /\ res.ok

\* isRelayOnline, after the fetch
Classify(res) ==
  IF ~res.transport THEN FALSE
  ELSE IF ~res.ok THEN FALSE
  ELSE IF res.body = "online_true" THEN TRUE
  ELSE IF res.body = "online_false" THEN FALSE
  ELSE TRUE

VARIABLES
  lastRelayOnline,  \* "null", "true" or "false"
  dynamicRules,     \* the persistent rules installed
  sessionRules,     \* the session rules installed
  storedAddress,    \* chrome.storage.sync "address", or Undefined
  health,           \* health of the relay at each base address
  tasks,            \* the reconciles in flight, by slot
  faultsLeft,       \* platform calls that may still reject in this behaviour
  nStarted,         \* reconciles started
  notified,         \* sendOfflineMessage calls made by applyOnlineState
  tabNotified,      \* sendOfflineMessage calls made by tabs.onUpdated
  overlapped,       \* whether two reconciles were ever in flight together
  done,             \* what each finished reconcile observed, in order of finishing
  lastFinished,     \* the held state around the reconcile that finished last
  firstRules,       \* the rules installed when the first reconcile finished
  deliveries,       \* sendOfflineMessage calls of applyOnlineState that issued a
                    \* send or a tab enumeration before they first suspended
  changesLeft,      \* changes of health and address still to come, where
                    \* they come to an end
  msg,              \* the sendOfflineMessage call under study
  call              \* the call of a pure function under study

rules == <<dynamicRules, sessionRules>>
relay == <<storedAddress, health, changesLeft>>
notices == <<notified, tabNotified, deliveries>>
started == <<tasks, nStarted, overlapped>>
finished == <<done, lastFinished, firstRules>>
aux == <<msg, call>>

vars == <<lastRelayOnline, rules, relay, notices, started, finished, faultsLeft, aux>>

(***************************************************************************)
(* Inputs of the triggers.                                                 *)
(***************************************************************************)
\* Values the "address" key can hold.
Addresses == { <<>>, <<"relay">>, <<"http:", "/", "/", "relay", "/">> }

Bases == { normalizeBase(a) : a \in Addresses \cup {Undefined} }

Url(scheme, sub, domain) == [scheme |-> scheme, sub |-> sub, domain |-> domain]
TwitchUrl == Url("https:", "www.", "twitch.tv")
UsherUrl == Url("https:", "usher.", "ttvnw.net")
OtherUrl == Url("https:", "www.", "example.com")
Urls == {TwitchUrl, UsherUrl, OtherUrl}

\* a host prefix ([^.]+\.)? : nothing, or one label and its dot
OneLabelOrNone == {"", "www.", "usher.", "m."}

\* /^https:\/\/([^.]+\.)?twitch\.tv\//
MatchesTwitch(url) ==
  url.scheme = "https:" /\ url.sub \in OneLabelOrNone /\ url.domain = "twitch.tv"

\* /^https:\/\/usher\.ttvnw\.net\//
MatchesUsher(url) ==
  url.scheme = "https:" /\ url.sub = "usher." /\ url.domain = "ttvnw.net"

isTwitchNavigation(url) == MatchesTwitch(url) \/ MatchesUsher(url)

NoContext == [tabId |-> 0, url |-> Url("", "", "")]
Context(tabId, url) == [tabId |-> tabId, url |-> url]

(***************************************************************************)
(* Tasks: one per reconcile in flight.                                     *)
(***************************************************************************)
Slots == 1..MaxTasks

\* installFailed: whether a call of removeRedirectSessionRules,
\* setAllowBypassRules or addRedirectSessionRules of this reconcile rejected.
Idle == [pc |-> "idle", kind |-> "none", address |-> Undefined, online |-> FALSE,
         context |-> NoContext, heldBefore |-> "null", installFailed |-> FALSE]

NewTask(kind, pc, address, context) ==
  [pc |-> pc, kind |-> kind, address |-> address, online |-> FALSE,
   context |-> context, heldBefore |-> lastRelayOnline, installFailed |-> FALSE]

InFlight == { i \in Slots : tasks[i] # Idle }
Quiescent == InFlight = {}
FreeSlot == CHOOSE i \in Slots : tasks[i] = Idle /\ \A j \in Slots : j < i => tasks[j] # Idle

CanStart == nStarted < MaxReconciles /\ \E i \in Slots : tasks[i] = Idle

\* The order of the awaited steps of each kind of reconcile.
NextPc(kind, pc) ==
  IF kind = "startup"
  THEN CASE pc = "get" -> "ads" [] pc = "ads" -> "rm" [] pc = "rm" -> "probe"
         [] pc = "probe" -> "allow"
  ELSE CASE pc = "get" -> "probe" [] pc = "probe" -> "rm" [] pc = "rm" -> "allow"

\* Outcomes of a platform call: TRUE resolves, FALSE rejects.
Outcomes == IF faultsLeft > 0 THEN BOOLEAN ELSE {TRUE}
Spend(ok) == faultsLeft' = IF ok THEN faultsLeft ELSE faultsLeft - 1

Start(task) ==
  /\ tasks' = [tasks EXCEPT ![FreeSlot] = task]
  /\ nStarted' = nStarted + 1
  /\ overlapped' = (overlapped \/ InFlight # {})

Finish(i, t, probed, held, dyn, sess) ==
  /\ tasks' = [tasks EXCEPT ![i] = Idle]
  /\ UNCHANGED <<nStarted, overlapped>>
  /\ IF nStarted = 0
     THEN UNCHANGED finished
     ELSE /\ done' = Append(done, [probed |-> probed, readFailed |-> ~probed,
                                   online |-> t.online,
                                   base |-> IF probed THEN normalizeBase(t.address)
                                            ELSE NoTarget])
          /\ lastFinished' = [installFailed |-> t.installFailed,
                              heldBefore |-> t.heldBefore, heldAfter |-> held]
          /\ firstRules' = IF done = <<>> THEN dyn \cup sess ELSE firstRules

Advance(i, t) ==
  /\ tasks' = [tasks EXCEPT ![i] = [t EXCEPT !.pc = NextPc(t.kind, t.pc)]]
  /\ UNCHANGED <<nStarted, overlapped, finished>>

(***************************************************************************)
(* The rule installers.  Each catches the rejection of its platform call.  *)
(***************************************************************************)
\* Variant: the rule is removed and not added back.
addOrUpdateAdsBlockDynamicRule_RemoveOnly(installed, ok) ==
  updateRules(installed, DYNAMIC_RULE_IDS, {}, ok)

addOrUpdateAdsBlockDynamicRule(installed, ok) ==
  updateRules(installed, DYNAMIC_RULE_IDS, {adsBlockRule}, ok)

\* Variant: disabling removes nothing.
setAllowBypassRules_KeepOld(installed, enabled, ok) ==
  updateRules(installed, IF enabled THEN DYNAMIC_ALLOW_IDS ELSE {},
              IF enabled THEN {liveAllow, vodAllow} ELSE {}, ok)

setAllowBypassRules(installed, enabled, ok) ==
  updateRules(installed, DYNAMIC_ALLOW_IDS,
              IF enabled THEN {liveAllow, vodAllow} ELSE {}, ok)

addRedirectSessionRules(installed, baseAddress, ok) ==
  updateRules(installed, SESSION_RULE_IDS, buildRedirectSessionRules(baseAddress), ok)

removeRedirectSessionRules(installed, ok) ==
  updateRules(installed, SESSION_RULE_IDS, {}, ok)

removeOldDynamicRedirectRules(installed, ok) ==
  updateRules(installed, oldIds, {}, ok)

\* Variant: the stored address is not looked at.
ReadAddress_Default(stored) == DEFAULT_ADDRESS

\* const { address = DEFAULT_ADDRESS } = await chrome.storage.sync.get(["address"])
ReadAddress(stored) == IF stored = Undefined THEN DEFAULT_ADDRESS ELSE stored

\* changes.address.newValue || DEFAULT_ADDRESS
ChangedAddress(newValue) ==
  IF newValue = Undefined \/ newValue = <<>> THEN DEFAULT_ADDRESS ELSE newValue

isRelayOnline(address) == Classify(Respond(health[normalizeBase(address)]))

\* Variant: level-triggered, a notice at every Offline observation.
ShouldNotify_Always(held) == TRUE

\* Variant: a notice only when the relay was held online before.
ShouldNotify_OnlyFromOnline(held) == held = "true"

\* applyOnlineState: if (lastRelayOnline !== false) sendOfflineMessage(context)
ShouldNotify(held) == held # "false"

\* Variant: the held state is set to online whatever was observed.
Held_AlwaysOnline(online) == "true"

\* applyOnlineState: lastRelayOnline = online
Held(online) == IF online THEN "true" ELSE "false"

(***************************************************************************)
(***************************************************************************)
(* sendOfflineMessage.  A message is one call of it: pc is the await it    *)
(* is suspended at, attempts the tabs chrome.tabs.sendMessage was called   *)
(* for, in order, failed the places in attempts whose call rejected.       *)
(***************************************************************************)
NoId == 0
Tab(id, hasUrl) == [id |-> id, hasUrl |-> hasUrl]

Message(pc, context, tabs, idx, attempts, failed) ==
  [pc |-> pc, context |-> context, tabs |-> tabs, idx |-> idx,
   attempts |-> attempts, failed |-> failed]

NoMessage == Message("none", NoContext, <<>>, 0, <<>>, {})
NoCall == [fn |-> "none"]

\* context && typeof context.tabId === "number" && typeof context.url === "string"
HasTarget(context) == context # NoContext

\* The call up to its first await: the send to the target is issued, or the
\* function returns because the URL of the target is not a twitch.tv page, or
\* chrome.tabs.query is issued.
sendOfflineMessage(context) ==
  IF HasTarget(context)
  THEN IF ~MatchesTwitch(context.url)
       THEN Message("done", context, <<>>, 0, <<>>, {})
       ELSE Message("send", context, <<>>, 0, <<context.tabId>>, {})
  ELSE Message("query", context, <<>>, 0, <<>>, {})

\* The call did not return at once: a send or an enumeration is under way.
Delivering(m) == m.pc \in {"send", "query"}

\* if (!t.id || typeof t.url !== "string") continue
Sendable(t) == ~(t.id = NoId \/ ~t.hasUrl)

\* The first tab at or after place from that the loop does not skip, or
\* Len(tabs) + 1.
FirstSendable(tabs, from) ==
  IF \E j \in from..Len(tabs) : Sendable(tabs[j])
  THEN CHOOSE j \in from..Len(tabs) :
         Sendable(tabs[j]) /\ \A k \in from..(j - 1) : ~Sendable(tabs[k])
  ELSE Len(tabs) + 1

\* for (const t of tabs): run the loop from place from up to its next await.
NextSend(m, from) ==
  LET j == FirstSendable(m.tabs, from)
  IN  IF j > Len(m.tabs)
      THEN [m EXCEPT !.pc = "done", !.idx = j]
      ELSE [m EXCEPT !.pc = "bsend", !.idx = j,
                     !.attempts = Append(@, m.tabs[j].id)]

\* A send settled: note the place of a rejected one.
Settled(m, ok) ==
  IF ok THEN m ELSE [m EXCEPT !.failed = @ \cup {Len(m.attempts)}]

\* Variant: a rejected send to the target is not retried.
AfterTargetSend_NoRetry(m, ok) == [Settled(m, ok) EXCEPT !.pc = "done"]

\* try { await chrome.tabs.sendMessage(context.tabId, payload) }
\* catch (_) { setTimeout(..., 500) }  return
AfterTargetSend(m, ok) ==
  [Settled(m, ok) EXCEPT !.pc = IF ok THEN "done" ELSE "timer"]

\* The timer callback: chrome.tabs.sendMessage(context.tabId, payload)
RetrySend(m) ==
  [m EXCEPT !.pc = "retry", !.attempts = Append(@, m.context.tabId)]

\* .catch(() => {})
AfterRetry(m, ok) == [Settled(m, ok) EXCEPT !.pc = "done"]

\* Variant: a rejected send ends the loop.
AfterBroadcastSend_StopOnFailure(m, ok) ==
  IF ok THEN NextSend(m, m.idx + 1) ELSE [Settled(m, ok) EXCEPT !.pc = "done"]

\* try { await chrome.tabs.sendMessage(t.id, payload) } catch (_) {}, and on
\* with the loop
AfterBroadcastSend(m, ok) == NextSend(Settled(m, ok), m.idx + 1)

\* const tabs = await chrome.tabs.query(...); a rejection lands in the outer
\* catch.
AfterQuery(m, ok, tabs) ==
  IF ok THEN NextSend([m EXCEPT !.tabs = tabs], 1) ELSE [m EXCEPT !.pc = "done"]

(* Triggers.                                                               *)
(***************************************************************************)
\* runtime.onInstalled / runtime.onStartup: the first event the worker gets.
\* removeOldDynamicRedirectRules is not awaited; its call is issued first, so
\* its effect comes before that of every later rule update.
OnStartup ==
  /\ nStarted = 0
  /\ CanStart
  /\ \E ok \in Outcomes :
       /\ dynamicRules' = removeOldDynamicRedirectRules(dynamicRules, ok)
       /\ Spend(ok)
  /\ Start(NewTask("startup", "get", Undefined, NoContext))
  /\ UNCHANGED <<aux, lastRelayOnline, sessionRules, relay, notices, finished>>

\* alarms.onAlarm; the alarm is created by the startup listeners.
OnAlarm ==
  /\ nStarted > 0
  /\ CanStart
  /\ \E name \in {"relay-healthcheck", "other"} :
       /\ name = "relay-healthcheck"
       /\ Start(NewTask("alarm", "get", Undefined, NoContext))
  /\ UNCHANGED <<aux, lastRelayOnline, rules, relay, notices, finished, faultsLeft>>

\* webNavigation.onBeforeNavigate / onHistoryStateUpdated -> refreshRulesNow
OnNavigation ==
  /\ nStarted > 0
  /\ CanStart
  /\ \E frameId \in {0, 1}, url \in Urls :
       /\ frameId = 0
       /\ isTwitchNavigation(url)
       /\ Start(NewTask("nav", "get", Undefined, Context(1, url)))
  /\ UNCHANGED <<aux, lastRelayOnline, rules, relay, notices, finished, faultsLeft>>

\* The user saves another address; storage.onChanged fires with it.
OnAddressChanged ==
  /\ nStarted > 0
  /\ CanStart
  /\ \E newValue \in (Addresses \cup {Undefined}) \ {storedAddress} :
       /\ storedAddress' = newValue
       /\ Start(NewTask("config", "probe", ChangedAddress(newValue), NoContext))
  /\ UNCHANGED <<aux, lastRelayOnline, rules, health, changesLeft, notices, finished,
                 faultsLeft>>

\* tabs.onUpdated: a watched tab finished loading while the relay is held offline.
OnTabUpdated ==
  /\ tabNotified < MaxTabNotices
  /\ \E status \in {"loading", "complete"}, url \in Urls :
       /\ status = "complete"
       /\ isTwitchNavigation(url)
       /\ lastRelayOnline = "false"
  /\ tabNotified' = tabNotified + 1
  /\ UNCHANGED <<aux, lastRelayOnline, rules, relay, notified, deliveries,
                 started, finished, faultsLeft>>

\* The relay starts or stops.
HealthChange ==
  /\ \E b \in Bases, h \in HealthValues :
       /\ health[b] # h
       /\ health' = [health EXCEPT ![b] = h]
  /\ UNCHANGED <<aux, lastRelayOnline, rules, storedAddress, changesLeft, notices,
                 started, finished, faultsLeft>>

(***************************************************************************)
(* The awaited steps of a reconcile.                                       *)
(***************************************************************************)
\* await chrome.storage.sync.get(["address"]); a rejection lands in the catch
\* of the caller, which ends the reconcile.
StorageGet(i) ==
  /\ tasks[i].pc = "get"
  /\ \E ok \in Outcomes :
       /\ Spend(ok)
       /\ IF ok
          THEN Advance(i, [tasks[i] EXCEPT !.address = ReadAddress(storedAddress)])
          ELSE Finish(i, tasks[i], FALSE, lastRelayOnline, dynamicRules,
                      sessionRules)
  /\ UNCHANGED <<aux, lastRelayOnline, rules, relay, notices>>

\* await addOrUpdateAdsBlockDynamicRule()
AdsBlock(i) ==
  /\ tasks[i].pc = "ads"
  /\ \E ok \in Outcomes :
       /\ Spend(ok)
       /\ dynamicRules' = addOrUpdateAdsBlockDynamicRule(dynamicRules, ok)
       /\ Advance(i, tasks[i])
  /\ UNCHANGED <<aux, lastRelayOnline, sessionRules, relay, notices>>

\* await removeRedirectSessionRules()
RemoveRedirect(i) ==
  /\ tasks[i].pc = "rm"
  /\ \E ok \in Outcomes :
       /\ Spend(ok)
       /\ sessionRules' = removeRedirectSessionRules(sessionRules, ok)
       /\ Advance(i, [tasks[i] EXCEPT !.installFailed = @ \/ ~ok])
  /\ UNCHANGED <<aux, lastRelayOnline, dynamicRules, relay, notices>>

\* await isRelayOnline(address)
Probe(i) ==
  /\ tasks[i].pc = "probe"
  /\ Advance(i, [tasks[i] EXCEPT !.online = isRelayOnline(tasks[i].address)])
  /\ UNCHANGED <<aux, lastRelayOnline, rules, relay, notices, faultsLeft>>

\* applyOnlineState: await setAllowBypassRules(online ? false : true), and in
\* the offline branch the rest of the function, which has no further await.
AllowBypass(i) ==
  /\ tasks[i].pc = "allow"
  /\ \E ok \in Outcomes :
       LET t == [tasks[i] EXCEPT !.installFailed = @ \/ ~ok]
           dyn == setAllowBypassRules(dynamicRules, ~t.online, ok)
       IN  /\ Spend(ok)
           /\ dynamicRules' = dyn
           /\ IF t.online
              THEN /\ tasks' = [tasks EXCEPT ![i] = [t EXCEPT !.pc = "redirect"]]
                   /\ UNCHANGED <<lastRelayOnline, notified, deliveries, nStarted,
                                  overlapped, finished>>
              ELSE /\ notified' = IF ShouldNotify(lastRelayOnline)
                                  THEN notified + 1 ELSE notified
                   /\ deliveries' = IF ShouldNotify(lastRelayOnline)
                                       /\ Delivering(sendOfflineMessage(t.context))
                                    THEN deliveries + 1 ELSE deliveries
                   /\ lastRelayOnline' = Held(t.online)
                   /\ Finish(i, t, TRUE, Held(t.online), dyn, sessionRules)
  /\ UNCHANGED <<aux, sessionRules, relay, tabNotified>>

\* applyOnlineState, online branch: await addRedirectSessionRules(address);
\* lastRelayOnline = online
AddRedirect(i) ==
  /\ tasks[i].pc = "redirect"
  /\ \E ok \in Outcomes :
       LET t == [tasks[i] EXCEPT !.installFailed = @ \/ ~ok]
           sess == addRedirectSessionRules(sessionRules, t.address, ok)
       IN  /\ Spend(ok)
           /\ sessionRules' = sess
           /\ lastRelayOnline' = Held(t.online)
           /\ Finish(i, t, TRUE, Held(t.online), dynamicRules, sess)
  /\ UNCHANGED <<aux, dynamicRules, relay, notices>>

(***************************************************************************)
(* Specifications.                                                         *)
(***************************************************************************)
\* The persistent rules a browser start or an install can find.
InitialDynamicRules ==
  { {}, oldRules, {adsBlockRule}, {adsBlockRule, liveAllow, vodAllow} }

InitWith(f) ==
  /\ lastRelayOnline = "null"
  /\ dynamicRules \in InitialDynamicRules
  /\ sessionRules = {}
  /\ storedAddress \in Addresses \cup {Undefined}
  /\ health \in [Bases -> HealthValues]
  /\ changesLeft = 0
  /\ tasks = [i \in Slots |-> Idle]
  /\ faultsLeft = f
  /\ nStarted = 0
  /\ notified = 0
  /\ tabNotified = 0
  /\ overlapped = FALSE
  /\ done = <<>>
  /\ lastFinished = [installFailed |-> FALSE, heldBefore |-> "null",
                     heldAfter |-> "null"]
  /\ firstRules = {}
  /\ deliveries = 0
  /\ msg = NoMessage
  /\ call = NoCall

Init == InitWith(0)
InitFault == InitWith(MaxFaults)

Step ==
  \E i \in Slots :
    \/ StorageGet(i)
    \/ AdsBlock(i)
    \/ RemoveRedirect(i)
    \/ Probe(i)
    \/ AllowBypass(i)
    \/ AddRedirect(i)

Next ==
  \/ OnStartup
  \/ OnAlarm
  \/ OnNavigation
  \/ OnAddressChanged
  \/ OnTabUpdated
  \/ HealthChange
  \/ Step

\* Platform calls resolve.
Spec == Init /\ [][Next]_vars

\* Up to MaxFaults platform calls reject.
SpecFault == InitFault /\ [][Next]_vars

(***************************************************************************)
(* What the claims speak of.                                               *)
(***************************************************************************)
Routes == {"live", "vod"}
Installed == dynamicRules \cup sessionRules

RedirectInstalled(route) ==
  \E r \in Installed : r.action = "redirect" /\ r.route = route
AllowInstalled(route) ==
  \E r \in Installed : r.action = "allow" /\ r.route = route
AdsBlockInstalled == adsBlockRule \in Installed

\* All reconciles finished so far observed the same health at the same base.
SameObservations ==
  \A j, k \in 1..Len(done) :
    /\ done[j].probed /\ done[k].probed
    /\ done[j].online = done[k].online
    /\ done[j].base = done[k].base

\* No probe has answered Online, in a finished reconcile or one in flight.
NoOnlineObserved ==
  /\ \A k \in 1..Len(done) : ~done[k].online
  /\ \A i \in Slots : ~tasks[i].online

\* The startup listener's reconcile has run to its end.
StartupComplete == nStarted > 0 /\ \A i \in Slots : tasks[i].kind # "startup"

\* The rule set one startup reconcile leaves, from persistent rules dyn0.
RunOnce(dyn0, online, base) ==
  LET d1 == removeOldDynamicRedirectRules(dyn0, TRUE)
      d2 == addOrUpdateAdsBlockDynamicRule(d1, TRUE)
      s1 == removeRedirectSessionRules({}, TRUE)
      d3 == setAllowBypassRules(d2, ~online, TRUE)
      s2 == IF online THEN addRedirectSessionRules(s1, base, TRUE) ELSE s1
  IN  d3 \cup s2

(***************************************************************************)
(* Claims.                                                                 *)
(***************************************************************************)
\* C1: in every reachable state, between the awaited steps of a reconcile and
\* under any interleaving of overlapping reconciles, the redirect rule and the
\* allow-bypass rule of the same route are never both installed.
C1_NeverBothInstalled ==
  \A route \in Routes : ~(RedirectInstalled(route) /\ AllowInstalled(route))

\* C2: once the first reconcile has finished, no reachable state, the states
\* between the rule-install calls of a later reconcile included, has a route
\* with neither its redirect rule nor its allow-bypass rule installed.
C2_NeverNeitherInstalled ==
  Len(done) >= 1 =>
    \A route \in Routes : RedirectInstalled(route) \/ AllowInstalled(route)

\* C3: whenever at least one reconcile has finished and none is in flight,
\* each route has exactly one of its redirect rule and its allow-bypass rule
\* installed, whatever the order in which earlier reconciles ran.
C3_ExactlyOneAtRest ==
  (Len(done) >= 1 /\ Quiescent) =>
    \A route \in Routes : RedirectInstalled(route) # AllowInstalled(route)

C5_Idempotent ==
  (Quiescent /\ ~overlapped /\ Len(done) >= 1 /\ SameObservations) =>
    Installed = firstRules

\* Three reconciles in a row saw the relay Online at one base, the stored
\* address having changed its spelling in between.
C5_Witness ==
  /\ Quiescent /\ ~overlapped /\ Len(done) = 3 /\ SameObservations
  /\ done[1].online
  /\ storedAddress = <<"http:", "/", "/", "relay", "/">>
  /\ done[1].base = normalizeBase(<<"relay">>)

\* C6: two overlapping reconciles that observed the same health at the same
\* base leave, under every interleaving, the rule set and the held state of a
\* single reconcile with those inputs.
C6_OverlapAsOnce ==
  (Quiescent /\ overlapped /\ nStarted = 2 /\ Len(done) = 2 /\ SameObservations) =>
    /\ \A dyn0 \in InitialDynamicRules :
         Installed = RunOnce(dyn0, done[1].online, done[1].base)
    /\ lastRelayOnline = (IF done[1].online THEN "true" ELSE "false")

\* Two overlapping reconciles have both finished with the same observation.
C6_Witness ==
  /\ Quiescent /\ overlapped /\ nStarted = 2 /\ Len(done) = 2 /\ SameObservations
  /\ done[1].online

\* C7: with non-overlapping reconciles from Unknown, a reconcile that finds
\* the address unreachable leaves the allow-bypass rules, no redirect rule and
\* one notice; after a change to a reachable address the next reconcile leaves
\* no allow-bypass rule, the redirect rules to the new address and no new notice.
C7_EndToEnd ==
  (Quiescent /\ ~overlapped /\ Len(done) >= 1 /\ ~done[1].online) =>
    /\ Len(done) = 1 =>
         /\ \A route \in Routes : AllowInstalled(route) /\ ~RedirectInstalled(route)
         /\ notified = 1
         /\ lastRelayOnline = "false"
    /\ (Len(done) = 2 /\ done[2].online /\ done[2].base # done[1].base) =>
         /\ \A route \in Routes : ~AllowInstalled(route)
         /\ sessionRules = buildRedirectSessionRules(done[2].base)
         /\ done[2].base = normalizeBase(storedAddress)
         /\ notified = 1
         /\ lastRelayOnline = "true"

\* Offline at the first address, then Online at the address it was changed to.
C7_Witness ==
  /\ Quiescent /\ ~overlapped /\ Len(done) = 2
  /\ ~done[1].online /\ done[2].online /\ done[2].base # done[1].base
  /\ notified = 1

\* C8: once the startup (or install) reconcile has run to its end the
\* ad-block rule is installed, whatever the probe observed, and it stays
\* installed through every later reconcile.
C8_AdsBlockAfterStartup == StartupComplete => AdsBlockInstalled

\* Startup found the relay Offline and two later reconciles have finished.
C8_Witness ==
  /\ StartupComplete /\ Quiescent /\ Len(done) = 3
  /\ ~done[1].online /\ done[3].online /\ AdsBlockInstalled

\* C9: a reconcile in which a rule-installer call rejected does not set the
\* held state: it keeps the value it had before the reconcile.
C9_HeldNotAdvanced ==
  (Len(done) >= 1 /\ ~overlapped /\ lastFinished.installFailed) =>
    lastFinished.heldAfter = lastFinished.heldBefore

\* C10: a reconcile whose configuration read failed goes on as if the address
\* were the default: it probes the default address.
C10_ReadFailureUsesDefault ==
  \A k \in 1..Len(done) :
    done[k].readFailed =>
      done[k].probed /\ done[k].base = normalizeBase(DEFAULT_ADDRESS)

(***************************************************************************)
(* Specifications of single functions.  The worker is parked: no event     *)
(* reaches it, and its state is the one a fresh worker has.                *)
(***************************************************************************)
main == <<lastRelayOnline, rules, relay, notices, started, finished, faultsLeft>>

Parked ==
  /\ lastRelayOnline = "null"
  /\ dynamicRules = {adsBlockRule}
  /\ sessionRules = {}
  /\ storedAddress = Undefined
  /\ health = [b \in Bases |-> "healthy"]
  /\ changesLeft = 0
  /\ tasks = [i \in Slots |-> Idle]
  /\ faultsLeft = 0
  /\ nStarted = 0
  /\ notified = 0
  /\ tabNotified = 0
  /\ deliveries = 0
  /\ overlapped = FALSE
  /\ done = <<>>
  /\ lastFinished = [installFailed |-> FALSE, heldBefore |-> "null",
                     heldAfter |-> "null"]
  /\ firstRules = {}

(***************************************************************************)
(* isRelayOnline on every answer the fetch can give.                       *)
(***************************************************************************)
Statuses == {200, 204, 404, 500, 503}

\* Response.ok
ResponseOk(status) == status >= 200 /\ status <= 299

\* Bodies: {"online":true}, {"online":false}, {"online":"yes"}, {}, null,
\* text that is not JSON, and no body at all.
Bodies == {"online_true", "online_false", "online_string", "no_flag", "null",
           "text", "empty"}

\* res.json() resolves
Parseable(body) == body \notin {"text", "empty"}

\* typeof data?.online === "boolean"
HasBooleanFlag(body) == body \in {"online_true", "online_false"}

Responses ==
  { [transport |-> FALSE, status |-> 0, ok |-> FALSE, body |-> "none"] } \cup
  { [transport |-> TRUE, status |-> st, ok |-> ResponseOk(st), body |-> b] :
      st \in Statuses, b \in Bodies }

\* const url = `${normalizeBase(baseAddress)}${HEALTH_PATH}`
healthUrl(baseAddress) == normalizeBase(baseAddress) \o HEALTH_PATH

InitProbe ==
  /\ Parked
  /\ msg = NoMessage
  /\ \E a \in Addresses \cup {Undefined}, res \in Responses :
       call = [fn |-> "isRelayOnline", url |-> healthUrl(a), res |-> res,
               returned |-> FALSE, result |-> FALSE]

\* The fetch settles and isRelayOnline returns.
ProbeReturns ==
  /\ call.fn = "isRelayOnline"
  /\ ~call.returned
  /\ call' = [call EXCEPT !.returned = TRUE, !.result = Classify(call.res)]
  /\ UNCHANGED <<main, msg>>

SpecProbe == InitProbe /\ [][ProbeReturns]_vars

\* C11: the probe answers Offline when the transport failed or the status is
\* not a success; with a success status and a parseable body carrying a
\* boolean online flag it answers that flag; with a success status and a body
\* without such a flag, or an unparseable body, it answers Online.
C11_ProbeClassification ==
  (call.fn = "isRelayOnline" /\ call.returned) =>
    LET res == call.res
        success == res.transport /\ ResponseOk(res.status)
        flagged == Parseable(res.body) /\ HasBooleanFlag(res.body)
    IN  /\ ~success => call.result = FALSE
        /\ (success /\ flagged) => call.result = (res.body = "online_true")
        /\ (success /\ ~flagged) => call.result = TRUE

\* A 200 answer whose body is {"online": false} was classified Offline.
C11_Witness ==
  /\ call.fn = "isRelayOnline" /\ call.returned
  /\ call.res.status = 200 /\ call.res.body = "online_false"
  /\ call.result = FALSE

(***************************************************************************)
(* normalizeBase on every address of up to MaxAddressLen tokens.           *)
(***************************************************************************)
AddressTokens == {"http:", "/", "relay"}

AddressInputs ==
  {Undefined} \cup
  UNION { [1..n -> AddressTokens] : n \in 0..MaxAddressLen }

EndsWithSlash(s) == Len(s) > 0 /\ s[Len(s)] = "/"

InitNormalize ==
  /\ Parked
  /\ msg = NoMessage
  /\ \E a \in AddressInputs :
       call = [fn |-> "normalizeBase", input |-> a, returned |-> FALSE,
               result |-> <<>>]

NormalizeReturns ==
  /\ call.fn = "normalizeBase"
  /\ ~call.returned
  /\ call' = [call EXCEPT !.returned = TRUE, !.result = normalizeBase(call.input)]
  /\ UNCHANGED <<main, msg>>

SpecNormalize == InitNormalize /\ [][NormalizeReturns]_vars

\* C12: for every input, those ending in more than one slash or consisting
\* only of a slash included, normalizeBase returns a string that begins with
\* an http or https scheme and does not end with a slash; an absent or empty
\* input gives the default address, and an input without a scheme gets the
\* http scheme prepended.
C12_NormalizedForm ==
  (call.fn = "normalizeBase" /\ call.returned) =>
    /\ HasScheme(call.result)
    /\ ~EndsWithSlash(call.result)
    /\ (call.input = Undefined \/ call.input = <<>>) => call.result = DEFAULT_ADDRESS
    /\ (call.input # Undefined /\ call.input # <<>> /\ ~HasScheme(call.input)) =>
         SubSeq(call.result, 1, 3) = <<"http:", "/", "/">>

(***************************************************************************)
(* sendOfflineMessage on every context its callers pass and every answer   *)
(* of chrome.tabs.query and chrome.tabs.sendMessage.                       *)
(***************************************************************************)
\* The contexts of the callers: none (startup, alarm, address change), or the
\* tab and URL of a navigation or tab update that isTwitchNavigation accepts.
Contexts ==
  {NoContext} \cup { Context(1, url) : url \in { u \in Urls : isTwitchNavigation(u) } }

TabValues == { Tab(1, TRUE), Tab(2, TRUE), Tab(NoId, TRUE), Tab(3, FALSE) }
TabLists == UNION { [1..n -> TabValues] : n \in 0..MaxTabs }

InitNotify ==
  /\ Parked
  /\ call = NoCall
  /\ \E c \in Contexts : msg = Message("call", c, <<>>, 0, <<>>, {})

SendCalled ==
  /\ msg.pc = "call"
  /\ msg' = sendOfflineMessage(msg.context)
  /\ UNCHANGED <<main, call>>

TargetSendSettles ==
  /\ msg.pc = "send"
  /\ \E ok \in BOOLEAN : msg' = AfterTargetSend(msg, ok)
  /\ UNCHANGED <<main, call>>

RetryTimerFires ==
  /\ msg.pc = "timer"
  /\ msg' = RetrySend(msg)
  /\ UNCHANGED <<main, call>>

RetrySettles ==
  /\ msg.pc = "retry"
  /\ \E ok \in BOOLEAN : msg' = AfterRetry(msg, ok)
  /\ UNCHANGED <<main, call>>

QuerySettles ==
  /\ msg.pc = "query"
  /\ \E ok \in BOOLEAN, tabs \in TabLists : msg' = AfterQuery(msg, ok, tabs)
  /\ UNCHANGED <<main, call>>

BroadcastSendSettles ==
  /\ msg.pc = "bsend"
  /\ \E ok \in BOOLEAN : msg' = AfterBroadcastSend(msg, ok)
  /\ UNCHANGED <<main, call>>

NextNotify ==
  \/ SendCalled
  \/ TargetSendSettles
  \/ RetryTimerFires
  \/ RetrySettles
  \/ QuerySettles
  \/ BroadcastSendSettles

SpecNotify == InitNotify /\ [][NextNotify]_vars

\* The message goes to one tab, and that tab shows a twitch.tv page.
Targeted(m) == HasTarget(m.context) /\ MatchesTwitch(m.context.url)

\* C13: a notification with a target consumer makes one send attempt; if and
\* only if that attempt fails it makes exactly one more, after the delay;
\* never a third; a failed retry ends the call like a success does, and no
\* step of the call changes the state of the worker.
C13_OneRetry ==
  (Targeted(msg) /\ msg.pc # "call") =>
    /\ Len(msg.attempts) \in {1, 2}
    /\ \A k \in 1..Len(msg.attempts) : msg.attempts[k] = msg.context.tabId
    /\ msg.pc \in {"send", "timer", "retry", "done"}
    /\ msg.pc = "send" => Len(msg.attempts) = 1 /\ msg.failed = {}
    /\ msg.pc = "timer" => Len(msg.attempts) = 1 /\ msg.failed = {1}
    /\ msg.pc = "retry" => Len(msg.attempts) = 2 /\ msg.failed = {1}
    /\ msg.pc = "done" => Len(msg.attempts) = (IF 1 \in msg.failed THEN 2 ELSE 1)
    /\ Parked

\* Both the send and its retry were rejected, and the call is over.
C13_Witness ==
  /\ Targeted(msg) /\ msg.pc = "done"
  /\ msg.attempts = <<1, 1>> /\ msg.failed = {1, 2}
  /\ Parked

\* The ids of the tabs of an enumeration that have an id and a URL, in order.
RECURSIVE SendableIds(_)
SendableIds(tabs) ==
  IF tabs = <<>> THEN <<>>
  ELSE (IF Sendable(Head(tabs)) THEN <<Head(tabs).id>> ELSE <<>>)
       \o SendableIds(Tail(tabs))

\* C14: a broadcast makes a send attempt to every tab of the enumeration that
\* has an id and a URL; a rejected send to one tab does not keep the later
\* tabs from their attempts.
C14_BroadcastReachesAll ==
  (~HasTarget(msg.context) /\ msg.pc = "done" /\ msg.idx > 0) =>
    msg.attempts = SendableIds(msg.tabs)

\* Two tabs were enumerated, the send to the first was rejected and the
\* second got its attempt all the same.
C14_Witness ==
  /\ ~HasTarget(msg.context) /\ msg.pc = "done"
  /\ msg.tabs = <<Tab(1, TRUE), Tab(2, TRUE)>>
  /\ msg.failed = {1} /\ msg.attempts = <<1, 2>>

(***************************************************************************)
(* How the rule engine resolves a request.  Rules of the two stores match  *)
(* a request by their regexFilter and resource types, which the allow and  *)
(* the redirect rule of a route share; of the matching rules the one of    *)
(* highest priority decides, and among equal priorities allow comes before *)
(* block and block before redirect.                                        *)
(***************************************************************************)
ActionRank(action) ==
  CASE action = "allow" -> 3 [] action = "block" -> 2 [] action = "redirect" -> 1

Matching(route) == { r \in Installed : r.route = route }

Outranks(r, q) ==
  \/ r.priority > q.priority
  \/ r.priority = q.priority /\ ActionRank(r.action) >= ActionRank(q.action)

\* The action taken on a request of the route.
Resolve(route) ==
  IF Matching(route) = {} THEN "none"
  ELSE (CHOOSE r \in Matching(route) : \A q \in Matching(route) : Outranks(r, q)).action

\* C15: in every reachable state where the allow-bypass rule of a route is
\* installed, a request matching the route is resolved by the allow rule and
\* not redirected, also while the redirect rule of the route is installed:
\* every allow rule has a priority above that of every redirect rule.
C15_AllowWins ==
  /\ \A route \in Routes : AllowInstalled(route) => Resolve(route) = "allow"
  /\ \A a, r \in Installed :
       (a.action = "allow" /\ r.action = "redirect") => a.priority > r.priority

\* The allow rule and the redirect rule of the live route are installed side
\* by side, and the request is allowed.
C15_Witness ==
  /\ AllowInstalled("live") /\ RedirectInstalled("live")
  /\ Resolve("live") = "allow"

(***************************************************************************)
(* The worker over a long time.  It wakes up in a later lifetime, with     *)
(* the persistent rules an earlier reconcile left and session rules that   *)
(* were dropped or are stale; the alarm keeps firing, and the relay and    *)
(* the stored address change MaxChanges times at most.  The reconciles of  *)
(* this lifetime are not counted in nStarted, and no history is kept.      *)
(***************************************************************************)
\* alarms.onAlarm, at every period
TimerTick ==
  /\ \E i \in Slots : tasks[i] = Idle
  /\ tasks' = [tasks EXCEPT ![FreeSlot] = NewTask("alarm", "get", Undefined, NoContext)]
  /\ UNCHANGED <<aux, lastRelayOnline, rules, relay, notices, nStarted, overlapped,
                 finished, faultsLeft>>

\* storage.onChanged, while the address still changes
LastAddressChanges ==
  /\ changesLeft > 0
  /\ \E i \in Slots : tasks[i] = Idle
  /\ \E newValue \in (Addresses \cup {Undefined}) \ {storedAddress} :
       /\ storedAddress' = newValue
       /\ tasks' = [tasks EXCEPT ![FreeSlot] =
                      NewTask("config", "probe", ChangedAddress(newValue), NoContext)]
  /\ changesLeft' = changesLeft - 1
  /\ UNCHANGED <<aux, lastRelayOnline, rules, health, notices, nStarted, overlapped,
                 finished, faultsLeft>>

\* The relay starts or stops, while its health still changes
LastHealthChanges ==
  /\ changesLeft > 0
  /\ \E b \in Bases, h \in HealthValues :
       /\ health[b] # h
       /\ health' = [health EXCEPT ![b] = h]
  /\ changesLeft' = changesLeft - 1
  /\ UNCHANGED <<aux, lastRelayOnline, rules, storedAddress, notices, started,
                 finished, faultsLeft>>

StepOf(i) ==
  \/ StorageGet(i)
  \/ RemoveRedirect(i)
  \/ Probe(i)
  \/ AllowBypass(i)
  \/ AddRedirect(i)

StaleSessionRules == { {}, buildRedirectSessionRules(<<"relay">>) }

InitLive ==
  /\ lastRelayOnline = "null"
  /\ dynamicRules \in { {adsBlockRule}, {adsBlockRule, liveAllow, vodAllow} }
  /\ sessionRules \in StaleSessionRules
  /\ storedAddress \in Addresses \cup {Undefined}
  /\ health \in [Bases -> HealthValues]
  /\ changesLeft = MaxChanges
  /\ tasks = [i \in Slots |-> Idle]
  /\ faultsLeft = 0
  /\ nStarted = 0
  /\ notified = 0
  /\ tabNotified = 0
  /\ deliveries = 0
  /\ overlapped = FALSE
  /\ done = <<>>
  /\ lastFinished = [installFailed |-> FALSE, heldBefore |-> "null",
                     heldAfter |-> "null"]
  /\ firstRules = {}
  /\ msg = NoMessage
  /\ call = NoCall

NextLive ==
  \/ TimerTick
  \/ LastAddressChanges
  \/ LastHealthChanges
  \/ \E i \in Slots : StepOf(i)

\* Every awaited platform call settles, and the alarm fires again and again.
SpecLive ==
  /\ InitLive
  /\ [][NextLive]_vars
  /\ WF_vars(TimerTick)
  /\ \A i \in Slots : WF_vars(StepOf(i))

\* The relay at the stored address (the default one if none is stored) answers.
RelayHealthy == health[normalizeBase(storedAddress)] = "healthy"

\* The rule set derived from the health of the relay at the stored address.
RulesDerived ==
  IF RelayHealthy
  THEN /\ sessionRules = buildRedirectSessionRules(storedAddress)
       /\ \A route \in Routes : ~AllowInstalled(route)
  ELSE /\ \A route \in Routes : AllowInstalled(route) /\ ~RedirectInstalled(route)

\* C16: once the health of the relay and the stored address have stopped
\* changing, with installer calls that succeed and an alarm that keeps firing,
\* eventually and from then on, whenever no reconcile is in flight, the
\* installed rules are those derived from the health and the address,
\* whatever rules were installed before.
C16_Converges == <>[](Quiescent => RulesDerived)

\* The relay at the stored address stopped and started again; the stale
\* redirect rules to another address have given way to the derived ones.
C16_Witness ==
  /\ changesLeft = 0 /\ nStarted = 0 /\ Quiescent /\ RulesDerived
  /\ RelayHealthy
  /\ normalizeBase(storedAddress) # normalizeBase(<<"relay">>)
  /\ lastRelayOnline = "true" /\ notified = 1

(***************************************************************************)
(* The user changes the address while every relay is reachable.  The       *)
(* worker starts from the state its startup reconcile left.                *)
(***************************************************************************)
AfterStartupOnline ==
  /\ storedAddress \in Addresses \cup {Undefined}
  /\ lastRelayOnline = "true"
  /\ dynamicRules = {adsBlockRule}
  /\ sessionRules = buildRedirectSessionRules(ReadAddress(storedAddress))
  /\ health = [b \in Bases |-> "healthy"]
  /\ changesLeft = 0
  /\ tasks = [i \in Slots |-> Idle]
  /\ faultsLeft = 0
  /\ nStarted = 1
  /\ notified = 0
  /\ tabNotified = 0
  /\ deliveries = 0
  /\ overlapped = FALSE
  /\ done = <<[probed |-> TRUE, readFailed |-> FALSE, online |-> TRUE,
               base |-> normalizeBase(ReadAddress(storedAddress))]>>
  /\ lastFinished = [installFailed |-> FALSE, heldBefore |-> "null",
                     heldAfter |-> "true"]
  /\ firstRules = dynamicRules \cup sessionRules

InitChange == AfterStartupOnline /\ msg = NoMessage /\ call = NoCall

NextChange ==
  \/ OnAddressChanged
  \/ \E i \in Slots : Probe(i) \/ RemoveRedirect(i) \/ AllowBypass(i) \/ AddRedirect(i)

SpecChange == InitChange /\ [][NextChange]_vars

\* C17: the address is changed twice in quick succession, to A and then to
\* B, both relays reachable, and the two reconciles overlap; once both have
\* finished the redirect rules installed target B, the stored address.
C17_LastAddressWins ==
  (Quiescent /\ overlapped /\ nStarted = 3 /\ Len(done) = 3) =>
    sessionRules = buildRedirectSessionRules(storedAddress)

(***************************************************************************)
(* Claims on overlapping reconciles and on the notice of a transition.     *)
(***************************************************************************)
\* C18: whenever at least one reconcile has finished, none is in flight and
\* no installer call failed, the held state agrees with the rules installed:
\* redirect rules are installed only if the held state is Online and
\* allow-bypass rules only if it is Offline, also after overlapping
\* reconciles that observed different health.
C18_HeldAgreesWithRules ==
  (Len(done) >= 1 /\ Quiescent) =>
    \A route \in Routes :
      /\ RedirectInstalled(route) => lastRelayOnline = "true"
      /\ AllowInstalled(route) => lastRelayOnline = "false"

\* The finished reconciles that recorded a transition into Offline: those
\* that observed Offline after none, or after one that observed Online.
OfflineTransitions ==
  { k \in 1..Len(done) : ~done[k].online /\ (k = 1 \/ done[k - 1].online) }

\* C19: of several overlapping reconciles that all observe Offline while the
\* held state is not Offline exactly one dispatches a notice, under every
\* interleaving: the test of the held state and its update are one step.
\* Over all reconciles, the notices dispatched are as many as the
\* transitions into Offline recorded, and each step dispatches at most one,
\* in the step that records Offline.
C19_OneNoticePerGroup ==
  /\ [](Quiescent => notified = Cardinality(OfflineTransitions))
  /\ [][ /\ notified' \in {notified, notified + 1}
         /\ notified' = notified + 1 <=>
              (lastRelayOnline # "false" /\ lastRelayOnline' = "false") ]_vars

\* Two overlapping reconciles both observed Offline from the Unknown state,
\* and one notice was dispatched.
C19_Witness ==
  /\ Quiescent /\ overlapped /\ nStarted = 2 /\ Len(done) = 2
  /\ ~done[1].online /\ ~done[2].online
  /\ notified = 1

\* C20: every reconcile that observes Offline while the held state is not
\* Offline, whichever trigger started it and whatever watched URL the trigger
\* carried (a twitch.tv page or the usher host), has a send of the notice (or
\* the enumeration of the tabs to send it to) under way when it records
\* Offline: no transition into Offline is recorded without one.
C20_NoticeAtTransition ==
  [][ (lastRelayOnline # "false" /\ lastRelayOnline' = "false") =>
        deliveries' = deliveries + 1 ]_vars

=============================================================================
